---- MODULE Spec2Model ----
(***************************************************************************)
(* Model of biotime_service.py: the upstream client (token, employee and   *)
(* transaction pages), the paginated fetch loops, the attendance summary,  *)
(* the attendance statistics per employee and day, and the monthly report. *)
(*                                                                         *)
(* A Python str is a sequence of one-character strings, so that sorting by *)
(* the raw string, splitting at a blank and parsing with strptime are      *)
(* computed as the code computes them.  A datetime is a record of its      *)
(* proleptic Gregorian ordinal and its second of the day.                  *)
(***************************************************************************)
EXTENDS Integers, Sequences, FiniteSets, TLC

\* ------------------------------------------------------------------ bounds

\* most transactions the upstream holds for one query
MaxTx == 2
\* most employee pages the upstream serves before it ends the listing
MaxEmpPages == 2
\* most days between the first and the last day of a requested range
MaxSpan == 2

\* ------------------------------------------------------------------ strings

DigitChars == <<"0", "1", "2", "3", "4", "5", "6", "7", "8", "9">>

IsDigit(c) == \E i \in 1..10 : DigitChars[i] = c

DigitVal(c) == (CHOOSE i \in 1..10 : DigitChars[i] = c) - 1

\* code point of a character (Python compares str by code point)
Ord(c) ==
    CASE c = " " -> 32
      [] c = "-" -> 45
      [] c = ":" -> 58
      [] c = "E" -> 69
      [] c = "T" -> 84
      [] OTHER -> 48 + DigitVal(c)

RECURSIVE StrLess(_, _)
\* a < b on Python str: lexicographic by code point, a proper prefix is smaller
StrLess(a, b) ==
    IF b = <<>> THEN FALSE
    ELSE IF a = <<>> THEN TRUE
    ELSE IF a[1] = b[1] THEN StrLess(Tail(a), Tail(b))
    ELSE Ord(a[1]) < Ord(b[1])

RECURSIVE SplitAt(_, _, _)
\* s.split(sep) for a one-character separator; cur is the part being read
SplitAt(s, sep, cur) ==
    IF s = <<>> THEN <<cur>>
    ELSE IF s[1] = sep THEN <<cur>> \o SplitAt(Tail(s), sep, <<>>)
    ELSE SplitAt(Tail(s), sep, Append(cur, s[1]))

Split(s, sep) == SplitAt(s, sep, <<>>)

RECURSIVE DigitsVal(_, _)
\* the number a string of digits denotes, acc the value read so far
DigitsVal(s, acc) ==
    IF s = <<>> THEN acc ELSE DigitsVal(Tail(s), 10 * acc + DigitVal(s[1]))

AllDigits(s) == \A i \in 1..Len(s) : IsDigit(s[i])

Pad2(n) == <<DigitChars[(n \div 10) + 1], DigitChars[(n % 10) + 1]>>

Pad4(n) ==
    <<DigitChars[(n \div 1000) + 1], DigitChars[((n \div 100) % 10) + 1],
      DigitChars[((n \div 10) % 10) + 1], DigitChars[(n % 10) + 1]>>

\* ------------------------------------------------------------------ dates

IsLeap(y) == y % 4 = 0 /\ (y % 100 # 0 \/ y % 400 = 0)

DAYS_IN_MONTH == <<31, 28, 31, 30, 31, 30, 31, 31, 30, 31, 30, 31>>

DAYS_BEFORE_MONTH == <<0, 31, 59, 90, 120, 151, 181, 212, 243, 273, 304, 334>>

DaysInMonth(y, m) == IF m = 2 /\ IsLeap(y) THEN 29 ELSE DAYS_IN_MONTH[m]

DaysBeforeYear(y) ==
    (y - 1) * 365 + ((y - 1) \div 4) - ((y - 1) \div 100) + ((y - 1) \div 400)

DaysBeforeMonth(y, m) ==
    DAYS_BEFORE_MONTH[m] + (IF m > 2 /\ IsLeap(y) THEN 1 ELSE 0)

\* date(y, m, d).toordinal()
Ymd2Ord(y, m, d) == DaysBeforeYear(y) + DaysBeforeMonth(y, m) + d

\* the month and day of day n (from 0) of a year
MonthDay(year, n, leap, m0) ==
    IF DAYS_BEFORE_MONTH[m0] + (IF m0 > 2 /\ leap THEN 1 ELSE 0) > n
    THEN [y |-> year, m |-> m0 - 1,
          d |-> n - (DAYS_BEFORE_MONTH[m0 - 1] + (IF m0 - 1 > 2 /\ leap THEN 1 ELSE 0)) + 1]
    ELSE [y |-> year, m |-> m0,
          d |-> n - (DAYS_BEFORE_MONTH[m0] + (IF m0 > 2 /\ leap THEN 1 ELSE 0)) + 1]

\* the date from the counts of whole 400, 100, 4 and 1 year cycles and the day left
CycleDate(n400, n100, n4, n1, n) ==
    IF n1 = 4 \/ n100 = 4
    THEN [y |-> n400 * 400 + n100 * 100 + n4 * 4 + n1, m |-> 12, d |-> 31]
    ELSE MonthDay(n400 * 400 + 1 + n100 * 100 + n4 * 4 + n1, n,
                  n1 = 3 /\ (n4 # 24 \/ n100 = 3), (n + 50) \div 32)

\* date.fromordinal(n): year, month, day
Ord2Ymd(ordinal) ==
    CycleDate((ordinal - 1) \div 146097,
              ((ordinal - 1) % 146097) \div 36524,
              (((ordinal - 1) % 146097) % 36524) \div 1461,
              ((((ordinal - 1) % 146097) % 36524) % 1461) \div 365,
              ((((ordinal - 1) % 146097) % 36524) % 1461) % 365)

\* datetime(y, m, d): midnight of that day
Datetime(y, m, d) == [ord |-> Ymd2Ord(y, m, d), sec |-> 0]

\* variant of MinusSeconds: a whole day is taken off instead of s seconds
MinusSeconds_WholeDay(dt, s) == [ord |-> dt.ord - 1, sec |-> dt.sec]

\* dt - timedelta(seconds = s)
MinusSeconds(dt, s) ==
    LET t == dt.sec - s
    IN  [ord |-> dt.ord + (t \div 86400), sec |-> t % 86400]

\* dt + timedelta(days = k)
PlusDays(dt, k) == [ord |-> dt.ord + k, sec |-> dt.sec]

\* a > b on datetime
DtGreater(a, b) == a.ord > b.ord \/ (a.ord = b.ord /\ a.sec > b.sec)

\* variant of Weekday: Sunday is 0 and Saturday is 6
Weekday_SundayFirst(dt) == dt.ord % 7

\* date.weekday(): Monday is 0, Sunday is 6
Weekday(dt) == (dt.ord + 6) % 7

\* strftime("%Y-%m-%d")
FormatDate(c) == Pad4(c.y) \o <<"-">> \o Pad2(c.m) \o <<"-">> \o Pad2(c.d)

StrfDate(dt) == FormatDate(Ord2Ymd(dt.ord))

\* the "%H:%M:%S" part of strftime
StrfTime(sec) ==
    Pad2(sec \div 3600) \o <<":">> \o Pad2((sec \div 60) % 60) \o <<":">> \o Pad2(sec % 60)

\* strftime("%Y-%m-%d %H:%M:%S")
StrfDatetime(dt) == StrfDate(dt) \o <<" ">> \o StrfTime(dt.sec)

\* the value strptime gives where Python raises ValueError
ValueError == [ord |-> 0, sec |-> 0]

\* a numeric field of strptime: lo to hi digits, all of them digits
IsField(s, lo, hi) == Len(s) >= lo /\ Len(s) <= hi /\ AllDigits(s)

\* the second of the day of hour, minute and second, -1 where they are out of range
TimeOfDay(h, mi, se) ==
    IF h <= 23 /\ mi <= 59 /\ se <= 59 THEN h * 3600 + mi * 60 + se ELSE -1

\* the time fields of strptime, f the parts between the colons
TimeFields(f) ==
    IF Len(f) = 3 /\ IsField(f[1], 1, 2) /\ IsField(f[2], 1, 2) /\ IsField(f[3], 1, 2)
    THEN TimeOfDay(DigitsVal(f[1], 0), DigitsVal(f[2], 0), DigitsVal(f[3], 0))
    ELSE -1

\* datetime.strptime(s, "%H:%M:%S"): second of the day, -1 for ValueError
StrpTimeOfDay(s) == TimeFields(Split(s, ":"))

\* datetime(y, m, d, second of the day t), ValueError where a field is out of range
CheckedDatetime(y, m, d, t) ==
    IF y >= 1 /\ m >= 1 /\ m <= 12 /\ d >= 1 /\ d <= DaysInMonth(y, m) /\ t >= 0
    THEN [ord |-> Ymd2Ord(y, m, d), sec |-> t]
    ELSE ValueError

\* the date fields of strptime, f the parts between the hyphens, t the time parsed
DateFields(f, t) ==
    IF Len(f) = 3 /\ IsField(f[1], 4, 4) /\ IsField(f[2], 1, 2) /\ IsField(f[3], 1, 2)
    THEN CheckedDatetime(DigitsVal(f[1], 0), DigitsVal(f[2], 0), DigitsVal(f[3], 0), t)
    ELSE ValueError

\* the date and the time part of strptime, p the parts around the blank
DateTimeParts(p) ==
    IF Len(p) # 2 THEN ValueError
    ELSE DateFields(Split(p[1], "-"), StrpTimeOfDay(p[2]))

\* datetime.strptime(s, "%Y-%m-%d %H:%M:%S"), ValueError where it raises
Strptime(s) == DateTimeParts(Split(s, " "))

\* str(timedelta(seconds = s)) for 0 <= s < one day: "H:MM:SS"
FormatTimedelta(s) ==
    (IF s >= 36000 THEN Pad2(s \div 3600) ELSE <<DigitChars[(s \div 3600) + 1]>>)
    \o <<":">> \o Pad2((s \div 60) % 60) \o <<":">> \o Pad2(s % 60)

\* str(a - b)
StrTimedelta(a, b) == FormatTimedelta((a.ord - b.ord) * 86400 + a.sec - b.sec)

\* ------------------------------------------------------------------ configuration

\* LATE_AFTER_TIME, the default "08:05:00"
LATE_AFTER_TIME == <<"0", "8", ":", "0", "5", ":", "0", "0">>

\* page_size of the transaction queries
TX_PAGE_SIZE == 2000

\* ------------------------------------------------------------------ inputs

E1 == <<"E", "1">>

E2 == <<"E", "2">>

\* an emp_code that is empty (or None): falsy in Python
NoCode == <<>>

D0107 == <<"2", "0", "2", "4", "-", "0", "1", "-", "0", "7">>

D0108 == <<"2", "0", "2", "4", "-", "0", "1", "-", "0", "8">>

\* Sunday 2024-01-07 09:00:00
T_SUN == D0107 \o <<" ", "0", "9", ":", "0", "0", ":", "0", "0">>

\* Monday 2024-01-08 08:05:00, the late threshold itself
T_MON_AT == D0108 \o <<" ", "0", "8", ":", "0", "5", ":", "0", "0">>

\* Monday 2024-01-08 08:06:00, one minute late
T_MON_LATE == D0108 \o <<" ", "0", "8", ":", "0", "6", ":", "0", "0">>

\* Monday 2024-01-08 07:59:59, hour not zero-padded: strptime accepts it
T_MON_UNPADDED == D0108 \o <<" ", "7", ":", "5", "9", ":", "5", "9">>

\* Monday, seconds missing: strptime raises ValueError
T_MON_SHORT == D0108 \o <<" ", "0", "8", ":", "0", "6">>

\* Monday in ISO form, no blank: strptime raises ValueError
T_MON_ISO == D0108 \o <<"T", "0", "8", ":", "0", "4", ":", "0", "0">>

\* a punch_time that is empty (or None)
NoTime == <<>>

\* the transaction records the upstream may hold
TxUniverse ==
    { [emp_code |-> E1, punch_time |-> T_SUN],
      [emp_code |-> E1, punch_time |-> T_MON_AT],
      [emp_code |-> E1, punch_time |-> T_MON_LATE],
      [emp_code |-> E1, punch_time |-> T_MON_UNPADDED],
      [emp_code |-> E1, punch_time |-> T_MON_SHORT],
      [emp_code |-> E1, punch_time |-> T_MON_ISO],
      [emp_code |-> E1, punch_time |-> NoTime],
      [emp_code |-> E2, punch_time |-> T_MON_LATE],
      [emp_code |-> NoCode, punch_time |-> T_MON_AT] }

\* the data of one employee page
EmpPageData ==
    { <<>>, <<[emp_code |-> NoCode]>>, <<[emp_code |-> E1]>>, <<[emp_code |-> E2]>> }

\* all sequences over S of length at most n
SeqUpTo(S, n) == UNION { [1..k -> S] : k \in 0..n }

\* page size limits of the upstream: one record a page, or none below the request's
ServerCaps == {1, TX_PAGE_SIZE}

\* the non-success responses drawn, status code and body: of the token endpoint
TokenFailResponses == { [status |-> 401, body |-> "unauthorized"] }

\* and of the employee and transaction endpoints
PageFailResponses == { [status |-> 500, body |-> "server error"] }

\* Saturday 2024-01-06, the first day of the requested ranges
RangeStart == Datetime(2024, 1, 6)

\* the clock of the month-to-date report: Monday 2024-01-08 12:00:00
Now == [ord |-> Ymd2Ord(2024, 1, 8), sec |-> 43200]

Years == {2023, 2024}

\* the requests served
Requests ==
    { [kind |-> k, start |-> RangeStart,
       end |-> [ord |-> RangeStart.ord + n, sec |-> 86399], month |-> 0, year |-> 0] :
         k \in {"stats", "summary"}, n \in 0..MaxSpan }
    \cup
    { [kind |-> "monthly", start |-> Now, end |-> Now, month |-> m, year |-> y] :
         m \in 0..12, y \in Years }

\* ------------------------------------------------------------------ sorting

RECURSIVE InsertByStr(_, _)
\* x put into s, sorted by the str key k, behind the items whose key is not larger
InsertByStr(x, s) ==
    IF s = <<>> THEN <<x>>
    ELSE IF StrLess(x.k, s[1].k) THEN <<x>> \o s
    ELSE <<s[1]>> \o InsertByStr(x, Tail(s))

RECURSIVE SortByStr(_, _)
\* sorted(items, key = k) for str keys; stable, acc is the sorted part
SortByStr(items, acc) ==
    IF items = <<>> THEN acc ELSE SortByStr(Tail(items), InsertByStr(items[1], acc))

RECURSIVE InsertByDt(_, _)
\* x put into s, sorted by the datetime key k, behind the items whose key is not larger
InsertByDt(x, s) ==
    IF s = <<>> THEN <<x>>
    ELSE IF DtGreater(s[1].k, x.k) THEN <<x>> \o s
    ELSE <<s[1]>> \o InsertByDt(x, Tail(s))

RECURSIVE SortByDt(_, _)
\* sorted(items, key = k) for datetime keys; stable, acc is the sorted part
SortByDt(items, acc) ==
    IF items = <<>> THEN acc ELSE SortByDt(Tail(items), InsertByDt(items[1], acc))

\* ------------------------------------------------------------------ calculate_attendance_stats

\* punches_map[code][d_str]: the transactions indexed under that employee and day
DailyTxs(transactions, code, d_str) ==
    SelectSeq(transactions,
              LAMBDA tx : /\ tx.emp_code # NoCode
                          /\ tx.punch_time # NoTime
                          /\ tx.emp_code = code
                          /\ Split(tx.punch_time, " ")[1] = d_str)

\* the items of a sorted list of keyed items
Values(sorted) == [i \in 1..Len(sorted) |-> sorted[i].v]

\* sorted(daily_txs, key = lambda x: x["punch_time"])
SortedPunches(daily_txs) ==
    Values(SortByStr([i \in 1..Len(daily_txs) |->
                         [k |-> daily_txs[i].punch_time, v |-> daily_txs[i]]], <<>>))

RECURSIVE AllDates_Reversed(_, _)
\* variant of AllDates: the date list from the last day back to the first
AllDates_Reversed(curr, end) ==
    IF curr.ord <= end.ord THEN AllDates_Reversed(PlusDays(curr, 1), end) \o <<curr>> ELSE <<>>

RECURSIVE AllDates(_, _)
\* the date list: curr, curr + 1 day, ... while curr.date() <= end_dt.date()
AllDates(curr, end) ==
    IF curr.ord <= end.ord THEN <<curr>> \o AllDates(PlusDays(curr, 1), end) ELSE <<>>

\* variant of IsWeekend: Saturday is the weekend
IsWeekend_Saturday(day) == Weekday(day) = 5

\* the weekend check: only Sunday is a weekend
IsWeekend(day) == Weekday(day) = 6

\* variant of IsLate: a first punch at the threshold is late too
IsLate_AtThreshold(first_punch_dt, threshold_dt) == ~DtGreater(threshold_dt, first_punch_dt)

\* first_punch_dt > threshold_dt
IsLate(first_punch_dt, threshold_dt) == DtGreater(first_punch_dt, threshold_dt)

\* datetime.combine(day.date(), late_time_struct)
ThresholdDt(day) == [ord |-> day.ord, sec |-> StrpTimeOfDay(LATE_AFTER_TIME)]

\* the counters of one employee before the first day
EmptyStats ==
    [work_days_required |-> 0, present |-> 0, late |-> 0, absent |-> 0,
     late_details |-> <<>>, absent_details |-> <<>>, raised |-> FALSE]

\* the late check of a day that has punches; st counts the day as present already
CheckLate(st, d_str, first_punch_str, first_punch_dt, threshold_dt) ==
    IF first_punch_dt = ValueError THEN [st EXCEPT !.raised = TRUE]
    ELSE IF IsLate(first_punch_dt, threshold_dt)
    THEN [st EXCEPT !.late = @ + 1,
                    !.late_details =
                        Append(@, [date |-> d_str, punch_time |-> first_punch_str,
                                   late_by |-> StrTimedelta(first_punch_dt, threshold_dt)])]
    ELSE st

\* a day that has punches, from its earliest punch_time by string order
PresentDay(st, day, d_str, first_punch_str) ==
    CheckLate([st EXCEPT !.present = @ + 1], d_str, first_punch_str,
              Strptime(first_punch_str), ThresholdDt(day))

\* the body of the loop over the days, for one day; raised: strptime raised ValueError
DayStep(st, day, d_str, daily_txs) ==
    IF st.raised THEN st
    ELSE IF IsWeekend(day)
    THEN IF Len(daily_txs) > 0 THEN [st EXCEPT !.present = @ + 1] ELSE st
    ELSE IF ~(Len(daily_txs) > 0)
    THEN [st EXCEPT !.work_days_required = @ + 1,
                    !.absent = @ + 1,
                    !.absent_details = Append(@, d_str)]
    ELSE PresentDay([st EXCEPT !.work_days_required = @ + 1], day, d_str,
                    SortedPunches(daily_txs)[1].punch_time)

RECURSIVE DayLoop(_, _, _, _, _)
\* for day in all_dates, from the i-th day on
DayLoop(st, all_dates, i, code, transactions) ==
    IF i > Len(all_dates) THEN st
    ELSE DayLoop(DayStep(st, all_dates[i], StrfDate(all_dates[i]),
                         DailyTxs(transactions, code, StrfDate(all_dates[i]))),
                 all_dates, i + 1, code, transactions)

\* the stats of one employee over the date list
EmployeeStats(code, transactions, all_dates) ==
    DayLoop(EmptyStats, all_dates, 1, code, transactions)

\* the employees that have an emp_code
WithCode(employees) == SelectSeq(employees, LAMBDA emp : emp.emp_code # NoCode)

\* the employees of a list for whom a transaction was fetched
Punched(employees, transactions) ==
    SelectSeq(employees,
              LAMBDA emp : \E k \in 1..Len(transactions) :
                              transactions[k].emp_code = emp.emp_code)

\* variant of ReportEntries: the employees come from the index of the transactions,
\* so an employee without a transaction has no entry
ReportEntries_OnlyPunched(employees, transactions, all_dates) ==
    [i \in 1..Len(Punched(WithCode(employees), transactions)) |->
        [emp_code |-> Punched(WithCode(employees), transactions)[i].emp_code,
         stats |-> EmployeeStats(Punched(WithCode(employees), transactions)[i].emp_code,
                                 transactions, all_dates)]]

\* the entries of the employees that have an emp_code, in roster order
ReportEntries(employees, transactions, all_dates) ==
    [i \in 1..Len(WithCode(employees)) |->
        [emp_code |-> WithCode(employees)[i].emp_code,
         stats |-> EmployeeStats(WithCode(employees)[i].emp_code, transactions, all_dates)]]

\* report_data.sort(key = lambda x: x["emp_code"])
SortReport(report) ==
    Values(SortByStr([i \in 1..Len(report) |-> [k |-> report[i].emp_code, v |-> report[i]]],
                     <<>>))

\* the stats dict of an entry
StatsDict(st) == [f \in DOMAIN st \ {"raised"} |-> st[f]]

\* the entries as they are returned
Returned(entries) ==
    IF \E i \in 1..Len(entries) : entries[i].stats.raised
    THEN [raised |-> TRUE, data |-> <<>>]
    ELSE [raised |-> FALSE,
          data |-> SortReport([i \in 1..Len(entries) |->
                                  [emp_code |-> entries[i].emp_code,
                                   stats |-> StatsDict(entries[i].stats)]])]

\* what calculate_attendance_stats returns; raised: a ValueError left the function
StatsResult(employees, transactions, start, end) ==
    Returned(ReportEntries(employees, transactions, AllDates(start, end)))

\* the filter of the report endpoints: late > 0 or absent > 0
LateOrAbsent(all_data) ==
    SelectSeq(all_data, LAMBDA d : d.stats.late > 0 \/ d.stats.absent > 0)

\* the first day of the month after month, year
NextMonth(month, year) ==
    IF month = 12 THEN Datetime(year + 1, 1, 1) ELSE Datetime(year, month + 1, 1)

\* the first day of the month of a date
FirstOfMonth(c) == Datetime(c.y, c.m, 1)

\* the period of attendance_report_monthly
MonthlyPeriod(month, year, now) ==
    IF month # 0 /\ year # 0
    THEN [start |-> Datetime(year, month, 1),
          end |-> MinusSeconds(NextMonth(month, year), 1),
          period |-> "custom_month"]
    ELSE [start |-> FirstOfMonth(Ord2Ymd(now.ord)), end |-> now,
          period |-> "current_month_to_date"]

\* the response of attendance_report_monthly
MonthlyResponse(period, start, end, filtered_data) ==
    [period |-> period,
     period_start |-> StrfDatetime(start),
     period_end |-> StrfDatetime(end),
     count |-> Len(filtered_data),
     data |-> filtered_data]

\* ------------------------------------------------------------------ build_attendance_summary

RECURSIVE GroupCodes(_, _)
\* the keys of grouped, in the order of their first record
GroupCodes(records, seen) ==
    IF records = <<>> THEN seen
    ELSE GroupCodes(Tail(records),
                    IF \E i \in 1..Len(seen) : seen[i] = records[1].emp_code
                    THEN seen ELSE Append(seen, records[1].emp_code))

\* the row of an employee from the punches sorted
RowOf(emp_code, punches_sorted) ==
    [emp_code |-> emp_code,
     first_punch_time |-> punches_sorted[1].punch_time,
     last_punch_time |-> punches_sorted[Len(punches_sorted)].punch_time,
     total_punches |-> Len(punches_sorted)]

\* sorted(punches, key = lambda r: datetime.strptime(r["punch_time"], ...))
SortedByTime(punches) ==
    Values(SortByDt([i \in 1..Len(punches) |->
                        [k |-> Strptime(punches[i].punch_time), v |-> punches[i]]], <<>>))

\* one row of the summary: the punches of grouped[emp_code], sorted
SummaryRow(emp_code, records) ==
    RowOf(emp_code, SortedByTime(SelectSeq(records, LAMBDA r : r.emp_code = emp_code)))

\* sorted(summary, key = lambda r: r["emp_code"])
SortSummary(rows) ==
    Values(SortByStr([i \in 1..Len(rows) |-> [k |-> rows[i].emp_code, v |-> rows[i]]], <<>>))

\* the rows of the groups, in the order of codes
SummaryRows(codes, records) == [i \in 1..Len(codes) |-> SummaryRow(codes[i], records)]

\* what build_attendance_summary returns from the records of the page it fetched
SummaryResult(records) ==
    IF \E i \in 1..Len(records) : Strptime(records[i].punch_time) = ValueError
    THEN [raised |-> TRUE, data |-> <<>>]
    ELSE [raised |-> FALSE,
          data |-> SortSummary(SummaryRows(GroupCodes(records, <<>>), records))]

\* ------------------------------------------------------------------ upstream

Min(a, b) == IF a < b THEN a ELSE b

\* the page the upstream serves of the transactions it holds: at most page_size
\* records, and no more than its own limit; next is set while records remain
TxPageOfSize(held, p, size) ==
    [data |-> SubSeq(held, (p - 1) * size + 1, Min(p * size, Len(held))),
     next |-> p * size < Len(held)]

TxPage(held, cap, p, page_size) == TxPageOfSize(held, p, Min(page_size, cap))

OkResponse == [status |-> 200, body |-> "ok"]

NoError == [status_code |-> 0, detail |-> ""]

NoResponse == [period |-> "none", period_start |-> <<>>, period_end |-> <<>>,
               count |-> 0, data |-> <<>>]

\* ------------------------------------------------------------------ state

VARIABLES
    request,        \* the request being served
    upstream_tx,    \* the result set of the transaction query, fixed at its first page
    server_cap,     \* the upstream's own page size limit, fixed with it
    pc,             \* where the request is
    page,           \* page of the running fetch loop
    all_employees,  \* fetch_all_employees: the employees collected
    all_tx,         \* fetch_all_transactions: the transactions collected (records of the summary)
    start_dt,       \* start of the period
    end_dt,         \* end of the period
    calls,          \* upstream calls made
    last_resp,      \* status and body of the last upstream response
    error,          \* the HTTPException raised
    report_data,    \* what calculate_attendance_stats or build_attendance_summary returned
    response,       \* what attendance_report_monthly returned
    emp_log,        \* the calls of fetch_employees made, with what each got
    tx_log          \* the calls of fetch_transactions made, with what each got

vars == <<request, upstream_tx, server_cap, pc, page, all_employees, all_tx, start_dt,
          end_dt, calls, last_resp, error, report_data, response, emp_log, tx_log>>

\* the upstream's filter by start_time and end_time: the day a punch_time names lies in
\* the period (a record without punch_time passes)
InPeriod(rec, start, end) ==
    \/ rec.punch_time = NoTime
    \/ \E o \in start.ord..end.ord :
           SubSeq(rec.punch_time, 1, 10) = StrfDate([ord |-> o, sec |-> 0])

\* the records the upstream may hold for the transaction query of a request
HeldUniverse(req, start, end) ==
    { rec \in TxUniverse :
        /\ InPeriod(rec, start, end)
        /\ req.kind = "monthly" => rec = [emp_code |-> E1, punch_time |-> T_MON_LATE] }

\* the result sets the upstream may have for the transaction query, with its page limit
QueryResults(req, start, end) ==
    { [held |-> h, cap |-> c] :
        h \in SeqUpTo(HeldUniverse(req, start, end), MaxTx), c \in ServerCaps }

Init ==
    /\ request \in Requests
    /\ upstream_tx = <<>>
    /\ server_cap = TX_PAGE_SIZE
    /\ pc = "request"
    /\ page = 1
    /\ all_employees = <<>>
    /\ all_tx = <<>>
    /\ start_dt = request.start
    /\ end_dt = request.end
    /\ calls = 0
    /\ last_resp = OkResponse
    /\ error = NoError
    /\ report_data = <<>>
    /\ response = NoResponse
    /\ emp_log = <<>>
    /\ tx_log = <<>>

\* ------------------------------------------------------------------ entry points

\* attendance_report_monthly up to its call of calculate_attendance_stats
AttendanceReportMonthly ==
    /\ pc = "request"
    /\ request.kind = "monthly"
    /\ start_dt' = MonthlyPeriod(request.month, request.year, request.start).start
    /\ end_dt' = MonthlyPeriod(request.month, request.year, request.start).end
    /\ pc' = "emp_token"
    /\ UNCHANGED <<request, upstream_tx, server_cap, page, all_employees, all_tx, calls,
                   last_resp, error, report_data, response, emp_log, tx_log>>

\* calculate_attendance_stats called with a range, up to its first fetch
CalculateAttendanceStatsCall ==
    /\ pc = "request"
    /\ request.kind = "stats"
    /\ pc' = "emp_token"
    /\ UNCHANGED <<request, upstream_tx, server_cap, page, all_employees, all_tx, start_dt,
                   end_dt, calls, last_resp, error, report_data, response, emp_log, tx_log>>

\* build_attendance_summary called with a range, up to its fetch
BuildAttendanceSummaryCall ==
    /\ pc = "request"
    /\ request.kind = "summary"
    /\ pc' = "tx_token"
    /\ UNCHANGED <<request, upstream_tx, server_cap, page, all_employees, all_tx, start_dt,
                   end_dt, calls, last_resp, error, report_data, response, emp_log, tx_log>>

\* ------------------------------------------------------------------ upstream calls

\* variant of Raise: the failure is noted and the request goes on with what it has
Raise_Continue(resp) ==
    /\ error' = [status_code |-> resp.status, detail |-> resp.body]
    /\ pc' = IF request.kind = "summary" THEN "summarise" ELSE "calculate"

\* raise HTTPException(status_code = resp.status_code, detail = resp.text)
Raise(resp) ==
    /\ error' = [status_code |-> resp.status, detail |-> resp.body]
    /\ pc' = "error"

\* get_token, called first by fetch_employees and by fetch_transactions: resp.ok
GetTokenOk ==
    /\ pc \in {"emp_token", "tx_token"}
    /\ calls' = calls + 1
    /\ last_resp' = OkResponse
    /\ pc' = IF pc = "emp_token" THEN "emp_page" ELSE "tx_page"
    /\ UNCHANGED <<request, upstream_tx, server_cap, page, all_employees, all_tx, start_dt,
                   end_dt, error, report_data, response, emp_log, tx_log>>

\* get_token: not resp.ok
GetTokenFail ==
    /\ pc \in {"emp_token", "tx_token"}
    /\ \E resp \in TokenFailResponses :
           /\ calls' = calls + 1
           /\ last_resp' = resp
           /\ Raise(resp)
    /\ UNCHANGED <<request, upstream_tx, server_cap, page, all_employees, all_tx, start_dt,
                   end_dt, report_data, response, emp_log, tx_log>>

\* a call of fetch_employees or fetch_transactions for page p that returned resp.json()
Fetched(p, data, next) == [page |-> p, ok |-> TRUE, data |-> data, next |-> next]

\* a call for page p that raised
Refused(p) == [page |-> p, ok |-> FALSE, data |-> <<>>, next |-> FALSE]

\* one turn of the loop of fetch_all_employees whose fetch_employees succeeds
FetchEmployeesOk ==
    /\ pc = "emp_page"
    /\ \E data \in EmpPageData, next \in BOOLEAN :
           /\ next => page < MaxEmpPages
           /\ emp_log' = Append(emp_log, Fetched(page, data, next))
           /\ calls' = calls + 1
           /\ last_resp' = OkResponse
           /\ IF data = <<>>
              THEN /\ all_employees' = all_employees
                   /\ page' = 1
                   /\ pc' = "tx_token"
              ELSE /\ all_employees' = all_employees \o data
                   /\ IF ~next
                      THEN /\ page' = 1
                           /\ pc' = "tx_token"
                      ELSE /\ page' = page + 1
                           /\ pc' = "emp_token"
    /\ UNCHANGED <<request, upstream_tx, server_cap, all_tx, start_dt, end_dt, error,
                   report_data, response, tx_log>>

\* fetch_employees: not resp.ok
FetchEmployeesFail ==
    /\ pc = "emp_page"
    /\ emp_log' = Append(emp_log, Refused(page))
    /\ \E resp \in PageFailResponses :
           /\ calls' = calls + 1
           /\ last_resp' = resp
           /\ Raise(resp)
    /\ UNCHANGED <<request, upstream_tx, server_cap, page, all_employees, all_tx, start_dt,
                   end_dt, report_data, response, tx_log>>

\* variant of FetchAllTransactionsStep: next is looked at before the data is kept
FetchAllTransactionsStep_NextFirst(resp) ==
    IF resp.data = <<>> \/ ~resp.next
    THEN /\ all_tx' = all_tx
         /\ page' = page
         /\ pc' = "calculate"
    ELSE /\ all_tx' = all_tx \o resp.data
         /\ page' = page + 1
         /\ pc' = "tx_token"

\* one turn of the loop of fetch_all_transactions whose fetch_transactions succeeds
FetchAllTransactionsStep(resp) ==
    IF resp.data = <<>>
    THEN /\ all_tx' = all_tx
         /\ page' = page
         /\ pc' = "calculate"
    ELSE /\ all_tx' = all_tx \o resp.data
         /\ IF ~resp.next
            THEN /\ page' = page
                 /\ pc' = "calculate"
            ELSE /\ page' = page + 1
                 /\ pc' = "tx_token"

\* the one fetch_transactions of build_attendance_summary: records = data of page 1
SummaryFetchStep(resp) ==
    /\ all_tx' = resp.data
    /\ page' = page
    /\ pc' = "summarise"

\* what follows a page of transactions
AfterTransactions(resp) ==
    /\ tx_log' = Append(tx_log, Fetched(page, resp.data, resp.next))
    /\ IF request.kind = "summary" THEN SummaryFetchStep(resp)
       ELSE FetchAllTransactionsStep(resp)

\* fetch_transactions: resp.ok; page 1 fixes the result set the later pages continue
FetchTransactionsOk ==
    /\ pc = "tx_page"
    /\ calls' = calls + 1
    /\ last_resp' = OkResponse
    /\ \E q \in IF page = 1 THEN QueryResults(request, start_dt, end_dt)
                ELSE {[held |-> upstream_tx, cap |-> server_cap]} :
           /\ Len(q.held) <= 1 => q.cap = TX_PAGE_SIZE
           /\ upstream_tx' = q.held
           /\ server_cap' = q.cap
           /\ AfterTransactions(TxPage(q.held, q.cap, page, TX_PAGE_SIZE))
    /\ UNCHANGED <<request, all_employees, start_dt, end_dt, error, report_data, response,
                   emp_log>>

\* fetch_transactions: not resp.ok
FetchTransactionsFail ==
    /\ pc = "tx_page"
    /\ tx_log' = Append(tx_log, Refused(page))
    /\ \E resp \in PageFailResponses :
           /\ calls' = calls + 1
           /\ last_resp' = resp
           /\ Raise(resp)
    /\ UNCHANGED <<request, upstream_tx, server_cap, page, all_employees, all_tx, start_dt,
                   end_dt, report_data, response, emp_log>>

\* ------------------------------------------------------------------ computation

\* the return of calculate_attendance_stats, or the ValueError that left it; in
\* attendance_report_monthly the filter and the response follow
StatsReturn(res) ==
    IF res.raised
    THEN /\ pc' = "crash"
         /\ UNCHANGED <<report_data, response>>
    ELSE /\ pc' = "done"
         /\ report_data' = res.data
         /\ response' =
                IF request.kind = "monthly"
                THEN MonthlyResponse(
                         MonthlyPeriod(request.month, request.year, request.start).period,
                         start_dt, end_dt, LateOrAbsent(res.data))
                ELSE response

\* calculate_attendance_stats from the index of the transactions on
CalculateAttendanceStats ==
    /\ pc = "calculate"
    /\ StatsReturn(StatsResult(all_employees, all_tx, start_dt, end_dt))
    /\ UNCHANGED <<request, upstream_tx, server_cap, page, all_employees, all_tx, start_dt,
                   end_dt, calls, last_resp, error, emp_log, tx_log>>

\* the return of build_attendance_summary, or the ValueError that left it
SummaryReturn(res) ==
    IF res.raised
    THEN /\ pc' = "crash"
         /\ UNCHANGED report_data
    ELSE /\ pc' = "done"
         /\ report_data' = res.data

\* build_attendance_summary from the grouping of the records on
BuildAttendanceSummary ==
    /\ pc = "summarise"
    /\ SummaryReturn(SummaryResult(all_tx))
    /\ UNCHANGED <<request, upstream_tx, server_cap, page, all_employees, all_tx, start_dt,
                   end_dt, calls, last_resp, error, response, emp_log, tx_log>>

Next ==
    \/ AttendanceReportMonthly
    \/ CalculateAttendanceStatsCall
    \/ BuildAttendanceSummaryCall
    \/ GetTokenOk
    \/ GetTokenFail
    \/ FetchEmployeesOk
    \/ FetchEmployeesFail
    \/ FetchTransactionsOk
    \/ FetchTransactionsFail
    \/ CalculateAttendanceStats
    \/ BuildAttendanceSummary

Spec == Init /\ [][Next]_vars

\* requests.post and requests.get carry a timeout: the call the request waits for
\* returns a response, ok or not
UpstreamAnswers ==
    /\ pc \in {"emp_token", "emp_page", "tx_token", "tx_page"}
    /\ calls' = calls + 1

\* the handler is synchronous code on one thread: it goes on as soon as its call is back
LiveSpec == Spec /\ WF_calls(UpstreamAnswers)

\* ------------------------------------------------------------------ vocabulary of the properties

\* calculate_attendance_stats has returned
StatsDone == pc = "done" /\ request.kind \in {"stats", "monthly"}

\* build_attendance_summary has returned
SummaryDone == pc = "done" /\ request.kind = "summary"

\* the days of the period, as ordinals
RangeOrds == start_dt.ord..end_dt.ord

\* Sunday 2024-01-07 and every seventh day from it
IsSunday(o) == (o - Ymd2Ord(2024, 1, 7)) % 7 = 0

WorkOrds == { o \in RangeOrds : ~IsSunday(o) }

DateStr(o) == StrfDate([ord |-> o, sec |-> 0])

\* the text of a punch_time before its first blank, all of it when it has none
DayPart(s) ==
    IF \E i \in 1..Len(s) : s[i] = " "
    THEN SubSeq(s, 1, (CHOOSE i \in 1..Len(s) :
                          s[i] = " " /\ \A j \in 1..(i - 1) : s[j] # " ") - 1)
    ELSE s

\* the fetched punches of an employee whose punch_time names the day before its blank
PunchesOn(code, o) ==
    { i \in 1..Len(all_tx) : /\ all_tx[i].emp_code = code
                             /\ all_tx[i].punch_time # NoTime
                             /\ DayPart(all_tx[i].punch_time) = DateStr(o) }

\* the Sundays of the period on which the employee has a punch
SundaysWorked(code) == { o \in RangeOrds : IsSunday(o) /\ PunchesOn(code, o) # {} }

\* the dates of a detail list
LateDates(st) == [i \in 1..Len(st.late_details) |-> st.late_details[i].date]

StrictlyAscending(dates) ==
    \A i \in 1..Len(dates) : \A j \in 1..Len(dates) : i < j => StrLess(dates[i], dates[j])

\* "YYYY-MM-DD HH:MM:SS", every field zero-padded and in range
ContractFormat(s) ==
    /\ Len(s) = 19
    /\ \A i \in {1, 2, 3, 4, 6, 7, 9, 10, 12, 13, 15, 16, 18, 19} : IsDigit(s[i])
    /\ s[5] = "-" /\ s[8] = "-" /\ s[11] = " " /\ s[14] = ":" /\ s[17] = ":"
    /\ 10 * DigitVal(s[6]) + DigitVal(s[7]) \in 1..12
    /\ 10 * DigitVal(s[9]) + DigitVal(s[10]) \in 1..31
    /\ 10 * DigitVal(s[12]) + DigitVal(s[13]) \in 0..23
    /\ 10 * DigitVal(s[15]) + DigitVal(s[16]) \in 0..59
    /\ 10 * DigitVal(s[18]) + DigitVal(s[19]) \in 0..59

\* the second of the day a punch_time in the contract format names, read by position
SecondOfDay(s) ==
    (10 * DigitVal(s[12]) + DigitVal(s[13])) * 3600
    + (10 * DigitVal(s[15]) + DigitVal(s[16])) * 60
    + 10 * DigitVal(s[18]) + DigitVal(s[19])

\* 08:05:00 as a second of the day
ThresholdSecond == 8 * 3600 + 5 * 60

\* every punch fetched for the employee is in the contract format
AllContractFormat(code) ==
    \A i \in 1..Len(all_tx) :
        (all_tx[i].emp_code = code /\ all_tx[i].punch_time # NoTime)
            => ContractFormat(all_tx[i].punch_time)

\* the earliest second of the day among the punches of a day
EarliestSecond(code, o) ==
    CHOOSE t \in { SecondOfDay(all_tx[i].punch_time) : i \in PunchesOn(code, o) } :
        \A i \in PunchesOn(code, o) : t <= SecondOfDay(all_tx[i].punch_time)

\* a punch_time that is present and that strptime rejects
Malformed(s) == s # NoTime /\ Strptime(s) = ValueError

\* the late_details entries of a day
LateEntries(st, o) == { i \in 1..Len(st.late_details) : st.late_details[i].date = DateStr(o) }

\* ------------------------------------------------------------------ C1

\* C1 as stated: in every entry calculate_attendance_stats returns,
\* present + absent = work_days_required.
C1_PresentPlusAbsentIsRequired ==
    StatsDone =>
        \A i \in 1..Len(report_data) :
            report_data[i].stats.present + report_data[i].stats.absent
                = report_data[i].stats.work_days_required

\* C1 amended: in every entry calculate_attendance_stats returns, present + absent =
\* work_days_required + the number of Sundays of the range on which the employee has
\* a punch (so the two sides agree exactly when no Sunday was worked).
C1_PresentPlusAbsent ==
    StatsDone =>
        \A i \in 1..Len(report_data) :
            report_data[i].stats.present + report_data[i].stats.absent
                = report_data[i].stats.work_days_required
                  + Cardinality(SundaysWorked(report_data[i].emp_code))

\* an entry of an employee who worked a Sunday and was absent on a working day
C1_Witness ==
    /\ StatsDone
    /\ \E i \in 1..Len(report_data) :
           /\ SundaysWorked(report_data[i].emp_code) # {}
           /\ report_data[i].stats.absent > 0
           /\ report_data[i].stats.present > 1

\* ------------------------------------------------------------------ C2

C3_MalformedPunchFails ==
    StatsDone =>
        \A i \in 1..Len(report_data) : \A k \in 1..Len(all_tx) :
            all_tx[k].emp_code = report_data[i].emp_code => ~Malformed(all_tx[k].punch_time)

\* ------------------------------------------------------------------ C4

\* C4: in every entry, work_days_required is the number of Monday-Saturday days of the
\* range, absent the number of those without a punch, absent_details names no Sunday,
\* and present counts the days with a punch, Sundays included; so a Sunday with a punch
\* adds to present alone and a Sunday without one adds nowhere.
C4_SundayPolicy ==
    StatsDone =>
        \A i \in 1..Len(report_data) :
            /\ report_data[i].stats.work_days_required = Cardinality(WorkOrds)
            /\ report_data[i].stats.absent
                   = Cardinality({ o \in WorkOrds : PunchesOn(report_data[i].emp_code, o) = {} })
            /\ report_data[i].stats.present
                   = Cardinality({ o \in RangeOrds : PunchesOn(report_data[i].emp_code, o) # {} })
            /\ \A k \in 1..Len(report_data[i].stats.absent_details) :
                   \A o \in RangeOrds :
                       report_data[i].stats.absent_details[k] = DateStr(o) => ~IsSunday(o)
            /\ \A k \in 1..Len(report_data[i].stats.late_details) :
                   \A o \in RangeOrds :
                       report_data[i].stats.late_details[k].date = DateStr(o) => ~IsSunday(o)

\* an employee whose only punch is on the Sunday of a range from Saturday to Monday
C4_Witness ==
    /\ StatsDone
    /\ \E o \in RangeOrds : IsSunday(o)
    /\ \E i \in 1..Len(report_data) :
           /\ SundaysWorked(report_data[i].emp_code) # {}
           /\ report_data[i].stats.present = 1
           /\ report_data[i].stats.work_days_required = 2
           /\ report_data[i].stats.absent = 2

\* ------------------------------------------------------------------ C5

EntriesOf(code) == { i \in 1..Len(report_data) : report_data[i].emp_code = code }

\* the employees fetched that carry a code
RosterOf(code) == { k \in 1..Len(all_employees) : all_employees[k].emp_code = code }

\* no transaction was fetched for the employee
ZeroPunches(code) == \A k \in 1..Len(all_tx) : all_tx[k].emp_code # code

\* the stats of an employee absent on every working day of the range
AllAbsent(st) ==
    /\ st.absent = Cardinality(WorkOrds)
    /\ Len(st.absent_details) = Cardinality(WorkOrds)
    /\ { st.absent_details[k] : k \in 1..Len(st.absent_details) }
           = { DateStr(o) : o \in WorkOrds }
    /\ StrictlyAscending(st.absent_details)
    /\ st.late = 0
    /\ st.late_details = <<>>
    /\ st.present = 0

\* C6 as stated: every employee fetched has an entry, one entry each, and an employee
\* with zero punches is absent on every Monday-Saturday day of the range.
C6_EveryEmployeeHasEntry ==
    StatsDone =>
        /\ Len(report_data) = Len(all_employees)
        /\ \A k \in 1..Len(all_employees) : EntriesOf(all_employees[k].emp_code) # {}
        /\ \A i \in 1..Len(report_data) :
               ZeroPunches(report_data[i].emp_code) => AllAbsent(report_data[i].stats)

\* C6 amended: every employee fetched whose emp_code is not empty has an entry, one
\* entry for each such roster record and no other entry; an employee with zero punches
\* has absent = the number of Monday-Saturday days of the range, absent_details exactly
\* those days, late = 0 and present = 0.
C6_EveryCodedEmployeeHasEntry ==
    StatsDone =>
        /\ Len(report_data) = Len(all_employees) - Cardinality(RosterOf(NoCode))
        /\ EntriesOf(NoCode) = {}
        /\ \A k \in 1..Len(all_employees) :
               all_employees[k].emp_code # NoCode =>
                   Cardinality(EntriesOf(all_employees[k].emp_code))
                       = Cardinality(RosterOf(all_employees[k].emp_code))
        /\ \A i \in 1..Len(report_data) :
               ZeroPunches(report_data[i].emp_code) => AllAbsent(report_data[i].stats)

\* a roster of an employee without a code and one with no punch, over two working days
C6_Witness ==
    /\ StatsDone
    /\ RosterOf(NoCode) # {}
    /\ all_tx # <<>>
    /\ \E i \in 1..Len(report_data) :
           /\ ZeroPunches(report_data[i].emp_code)
           /\ report_data[i].stats.absent = 2
           /\ Len(report_data[i].stats.absent_details) = 2

\* ------------------------------------------------------------------ C7

\* the punches the upstream holds for an employee
HeldOf(code) == { k \in 1..Len(upstream_tx) : upstream_tx[k].emp_code = code }

\* the rows of the summary that carry a code
RowsOf(code) == { i \in 1..Len(report_data) : report_data[i].emp_code = code }

\* C7 as stated: the summary has a row for every employee the upstream holds punches
\* of, with total_punches = the number of those punches and first and last punch time
\* their minimum and maximum.
C7_SummaryCountsAllPunches ==
    (SummaryDone /\ \A k \in 1..Len(upstream_tx) : ~(Strptime(upstream_tx[k].punch_time) = ValueError)) =>
        \A k \in 1..Len(upstream_tx) :
            /\ RowsOf(upstream_tx[k].emp_code) # {}
            /\ \A i \in RowsOf(upstream_tx[k].emp_code) :
                   /\ report_data[i].total_punches
                          = Cardinality(HeldOf(upstream_tx[k].emp_code))
                   /\ ~DtGreater(Strptime(report_data[i].first_punch_time),
                                 Strptime(upstream_tx[k].punch_time))
                   /\ ~DtGreater(Strptime(upstream_tx[k].punch_time),
                                 Strptime(report_data[i].last_punch_time))

\* ------------------------------------------------------------------ C8

\* C8: once an upstream call has returned a non-success response the request is in
\* error with that response's status code and body, nothing is returned, and no
\* further upstream call is made; and only such a response puts a request in error.
C8_UpstreamFailureAborts ==
    /\ [](/\ (last_resp.status # 200) <=> (pc = "error")
          /\ pc = "error" =>
                 /\ error = [status_code |-> last_resp.status, detail |-> last_resp.body]
                 /\ report_data = <<>>
                 /\ response = NoResponse)
    /\ [][pc = "error" => (pc' = "error" /\ calls' = calls)]_vars

\* a transaction page fails after employees and a first transaction page were fetched
C8_Witness ==
    /\ pc = "error"
    /\ error.status_code = 500
    /\ all_employees # <<>>
    /\ all_tx # <<>>
    /\ calls >= 5

\* ------------------------------------------------------------------ C9

\* C9 as stated: the entries calculate_attendance_stats returns are in ascending
\* emp_code order and no two of them share an emp_code.
C9_SortedUnique ==
    StatsDone =>
        \A i \in 1..Len(report_data) : \A j \in 1..Len(report_data) :
            i < j => StrLess(report_data[i].emp_code, report_data[j].emp_code)

\* ------------------------------------------------------------------ C10

\* the last day of a month, from the calendar
LastDayOf(month, year) ==
    IF month \in {4, 6, 9, 11} THEN 30
    ELSE IF month # 2 THEN 31
    ELSE IF year % 4 = 0 /\ (year % 100 # 0 \/ year % 400 = 0) THEN 29 ELSE 28

\* C10: attendance_report_monthly with a month and a year takes the period from the
\* first day of the month 00:00:00 to its last day 23:59:59, and the days the stats
\* go through are the days 1 to the last of that month, each once, in order.
C10_MonthlyPeriod ==
    (request.kind = "monthly" /\ request.month # 0 /\ pc # "request") =>
        /\ StrfDatetime(start_dt)
               = Pad4(request.year) \o <<"-">> \o Pad2(request.month)
                   \o <<"-", "0", "1", " ", "0", "0", ":", "0", "0", ":", "0", "0">>
        /\ StrfDatetime(end_dt)
               = Pad4(request.year) \o <<"-">> \o Pad2(request.month) \o <<"-">>
                   \o Pad2(LastDayOf(request.month, request.year))
                   \o <<" ", "2", "3", ":", "5", "9", ":", "5", "9">>
        /\ Len(AllDates(start_dt, end_dt)) = LastDayOf(request.month, request.year)
        /\ \A d \in 1..Len(AllDates(start_dt, end_dt)) :
               StrfDate(AllDates(start_dt, end_dt)[d])
                   = Pad4(request.year) \o <<"-">> \o Pad2(request.month) \o <<"-">> \o Pad2(d)
        /\ pc = "done" =>
               /\ response.period_start = StrfDatetime(start_dt)
               /\ response.period_end = StrfDatetime(end_dt)
               /\ \A i \in 1..Len(report_data) :
                      report_data[i].stats.work_days_required
                          + Cardinality({ o \in RangeOrds : IsSunday(o) })
                              = LastDayOf(request.month, request.year)

\* the report of February 2024 returned, Feb 1 00:00:00 through Feb 29 23:59:59
C10_Witness ==
    /\ pc = "done"
    /\ request.kind = "monthly"
    /\ request.month = 2
    /\ request.year = 2024
    /\ report_data # <<>>
    /\ response.period_start
           = <<"2", "0", "2", "4", "-", "0", "2", "-", "0", "1", " ",
               "0", "0", ":", "0", "0", ":", "0", "0">>
    /\ response.period_end
           = <<"2", "0", "2", "4", "-", "0", "2", "-", "2", "9", " ",
               "2", "3", ":", "5", "9", ":", "5", "9">>

\* ------------------------------------------------------------------ the fetch loops

\* a page that ends a fetch loop: its data is empty or its next is absent
LastPage(r) == r.ok /\ (r.data = <<>> \/ ~r.next)

\* the data of the pages of a log from the i-th on, in the order of the log
RECURSIVE PagesData(_, _)
PagesData(log, i) == IF i > Len(log) THEN <<>> ELSE log[i].data \o PagesData(log, i + 1)

\* the calls of a log ask for pages 1, 2, 3, ... in this order
PagesInOrder(log) == \A i \in 1..Len(log) : log[i].page = i

\* every call of a log but its last got a page with data and a next
NoneAfterLast(log) == \A i \in 1..(Len(log) - 1) : log[i].ok /\ ~LastPage(log[i])

\* the last call of a log got a page that ends the loop
Ended(log) == log # <<>> /\ LastPage(log[Len(log)])

\* the request is inside the loop of fetch_all_employees
InEmployeesLoop == request.kind # "summary" /\ pc \in {"emp_token", "emp_page"}

\* the request is inside the loop of fetch_all_transactions
InTransactionsLoop == request.kind # "summary" /\ pc \in {"tx_token", "tx_page"}

\* what holds of both loops in every state
LoopsInOrder ==
    request.kind # "summary" =>
        /\ PagesInOrder(emp_log) /\ PagesInOrder(tx_log)
        /\ NoneAfterLast(emp_log) /\ NoneAfterLast(tx_log)
        /\ all_employees = PagesData(emp_log, 1)
        /\ all_tx = PagesData(tx_log, 1)
        /\ Ended(emp_log) => ~InEmployeesLoop
        /\ Ended(tx_log) => ~InTransactionsLoop
        /\ ~Ended(emp_log) => pc \in {"request", "emp_token", "emp_page", "error"}
        /\ ~Ended(tx_log) =>
               pc \in {"request", "emp_token", "emp_page", "tx_token", "tx_page", "error"}

\* C11: fetch_all_employees and fetch_all_transactions ask for pages 1, 2, 3, ... in
\* order, one call at a time; the first page whose data is empty or whose next is absent
\* is the last one asked for, and with it the loop is left; what the loop has collected,
\* and returns, is the data of all pages asked for, in page order, the last page's
\* included; and a loop that is entered is left, the upstream serving such a page within
\* MaxEmpPages pages of employees and at the end of the transactions it holds.
C11_FetchAllPages ==
    /\ []LoopsInOrder
    /\ InEmployeesLoop ~> ~InEmployeesLoop
    /\ InTransactionsLoop ~> ~InTransactionsLoop

\* a report made from two pages of employees, the second one empty, and two pages of
\* transactions, the second one with data and without next
C11_Witness ==
    /\ StatsDone
    /\ Len(emp_log) = 2 /\ emp_log[1].next /\ emp_log[2].data = <<>>
    /\ Len(all_employees) = 1
    /\ Len(tx_log) = 2 /\ tx_log[1].next /\ tx_log[2].data # <<>> /\ ~tx_log[2].next
    /\ Len(all_tx) = 2

====
